---- MODULE Spec2Model ----
(***************************************************************************)
(* Model of ip_validator.py: the pure function is_valid_ipv4 and the calls *)
(* made on it.  A text is a sequence of one-character strings; a value is  *)
(* a record [type, value] whose type is the runtime type of the argument.  *)
(***************************************************************************)
EXTENDS Integers, Sequences, FiniteSets, TLC

\* ---------------------------------------------------------------- bounds
\* Largest number of dot-separated segments of a generated text.
MaxSegs == 5
\* Largest number of space characters put before and after a generated text.
MaxPad == 1

\* ------------------------------------------------------ program constants
\* len(octets) != 4
OctetCount == 4
\* 0 <= num <= 255
MinOctet == 0
MaxOctet == 255

\* ------------------------------------------------------- character classes
\* Characters str.strip() and int() treat as whitespace (the ASCII ones used).
Whitespace == {" ", "\t"}

Digits == {"0", "1", "2", "3", "4", "5", "6", "7", "8", "9"}

\* Characters int() accepts as a sign.
Signs == {"+", "-"}

DigitValue(c) ==
  CASE c = "0" -> 0 [] c = "1" -> 1 [] c = "2" -> 2 [] c = "3" -> 3
    [] c = "4" -> 4 [] c = "5" -> 5 [] c = "6" -> 6 [] c = "7" -> 7
    [] c = "8" -> 8 [] c = "9" -> 9

\* ------------------------------------------------------------ str methods
RECURSIVE lstrip(_)
lstrip(s) ==
  IF s # <<>> /\ Head(s) \in Whitespace THEN lstrip(Tail(s)) ELSE s

RECURSIVE rstrip(_)
rstrip(s) ==
  IF s # <<>> /\ s[Len(s)] \in Whitespace
  THEN rstrip(SubSeq(s, 1, Len(s) - 1))
  ELSE s

\* A plausible slip: only the left end is stripped.
strip_LeftOnly(s) == lstrip(s)

\* ip_address.strip()
strip(s) == rstrip(lstrip(s))

RECURSIVE SplitFrom(_, _, _)
SplitFrom(s, sep, cur) ==
  IF s = <<>> THEN <<cur>>
  ELSE IF Head(s) = sep
       THEN <<cur>> \o SplitFrom(Tail(s), sep, <<>>)
       ELSE SplitFrom(Tail(s), sep, Append(cur, Head(s)))

\* ip_address.split('.'): always at least one element.
split(s, sep) == SplitFrom(s, sep, <<>>)

\* ------------------------------------------------------------------ int()
\* The digit part of an int() literal: digits, with single underscores
\* allowed between two digits.
IsIntBody(b) ==
  /\ b # <<>>
  /\ \A i \in 1..Len(b) : b[i] \in Digits \cup {"_"}
  /\ b[1] \in Digits
  /\ b[Len(b)] \in Digits
  /\ \A i \in 1..(Len(b) - 1) : ~(b[i] = "_" /\ b[i + 1] = "_")

RECURSIVE BodyValue(_, _)
BodyValue(b, acc) ==
  IF b = <<>> THEN acc
  ELSE IF Head(b) = "_" THEN BodyValue(Tail(b), acc)
       ELSE BodyValue(Tail(b), 10 * acc + DigitValue(Head(b)))

\* int(octet): surrounding whitespace is skipped, one sign is accepted, then
\* the digit part must follow to the end; anything else raises ValueError.
int(octet) ==
  LET t    == rstrip(lstrip(octet))
      sgn  == t # <<>> /\ Head(t) \in Signs
      body == IF sgn THEN Tail(t) ELSE t
  IN IF IsIntBody(body)
     THEN [raised |-> "None",
           num    |-> IF sgn /\ Head(t) = "-"
                      THEN 0 - BodyValue(body, 0)
                      ELSE BodyValue(body, 0)]
     ELSE [raised |-> "ValueError", num |-> 0]

\* ---------------------------------------------------------- is_valid_ipv4
\* A plausible slip: anything with fewer than four octets is refused only.
WrongOctetCount_TooFewOnly(octets) == Len(octets) < OctetCount

\* if len(octets) != 4
WrongOctetCount(octets) == Len(octets) # OctetCount

\* A plausible slip: the leading-zero test is applied from three characters.
HasLeadingZero_FromThree(octet) == Len(octet) > 2 /\ octet[1] = "0"

\* if len(octet) > 1 and octet[0] == '0'
HasLeadingZero(octet) == Len(octet) > 1 /\ octet[1] = "0"

\* A plausible slip: the upper bound is off by one.
InRange_OffByOne(num) == MinOctet <= num /\ num <= MaxOctet + 1

\* 0 <= num <= 255
InRange(num) == MinOctet <= num /\ num <= MaxOctet

\* A plausible slip: the ValueError of int() is not caught.
CheckOctet_NoExcept(octet) ==
  IF octet = <<>> THEN "False"
  ELSE IF HasLeadingZero(octet) THEN "False"
  ELSE LET r == int(octet)
       IN IF r.raised # "None" THEN r.raised
          ELSE IF ~InRange(r.num) THEN "False"
          ELSE "continue"

\* The body of `for octet in octets`: "False" for a return False,
\* "continue" when the loop goes on to the next octet.
CheckOctet(octet) ==
  IF octet = <<>> THEN "False"
  ELSE IF HasLeadingZero(octet) THEN "False"
  ELSE LET r == int(octet)
       IN IF r.raised = "ValueError" THEN "False"
          ELSE IF ~InRange(r.num) THEN "False"
          ELSE "continue"

\* for octet in octets: ... ; return True
RECURSIVE OctetLoop(_)
OctetLoop(octets) ==
  IF octets = <<>> THEN "True"
  ELSE LET o == CheckOctet(Head(octets))
       IN IF o = "continue" THEN OctetLoop(Tail(octets)) ELSE o

\* isinstance(ip_address, str)
IsStr(ip_address) == ip_address.type = "str"

\* A plausible slip: a non-string is answered False instead of raising.
is_valid_ipv4_FalseOnNonStr(ip_address) ==
  IF ~IsStr(ip_address) THEN "False"
  ELSE LET octets == split(strip(ip_address.value), ".")
       IN IF WrongOctetCount(octets) THEN "False" ELSE OctetLoop(octets)

\* The outcome of one call: "True" or "False" for a returned bool, the name
\* of the exception for a call that raises.
is_valid_ipv4(ip_address) ==
  IF ~IsStr(ip_address) THEN "TypeError"
  ELSE LET octets == split(strip(ip_address.value), ".")
       IN IF WrongOctetCount(octets) THEN "False" ELSE OctetLoop(octets)

\* ----------------------------------------------------------------- inputs
\* Segments a generated four-segment text is made of: in and out of range,
\* leading zeros, empty, whitespace, signs, letters, underscore.
Pool ==
  { <<>>, <<"0">>, <<"1">>, <<"2", "5", "5">>, <<"2", "5", "6">>,
    <<"0", "1">>, <<"0", "0">>, <<" ", "4">>, <<"3", "\t">>, <<"+", "1">>, <<"-", "0">>,
    <<"-", "1">>, <<"a">>, <<"1", "_", "0">> }

\* Segments of the generated texts with another number of segments.
CountPool == { <<>>, <<"0">>, <<"2", "5", "5">>, <<"a">> }

SegSeqs ==
  UNION { [1..n -> IF n = OctetCount THEN Pool ELSE CountPool] : n \in 1..MaxSegs }

RECURSIVE Join(_)
Join(segs) ==
  IF Len(segs) = 1 THEN segs[1]
  ELSE segs[1] \o <<".">> \o Join(Tail(segs))

Pad(n) == [i \in 1..n |-> " "]

Texts ==
  { Pad(l) \o Join(segs) \o Pad(t) : segs \in SegSeqs, l \in 0..MaxPad, t \in 0..MaxPad }

\* The non-string arguments of the demonstration block: None, 123456789,
\* ["1.1.1.1"], {"ip": "1.1.1.1"}, and a bool; value is the text they carry.
NonStrings ==
  { [type |-> "NoneType", value |-> <<>>],
    [type |-> "int", value |-> <<"1", "2", "3", "4", "5", "6", "7", "8", "9">>],
    [type |-> "list", value |-> <<"1", ".", "1", ".", "1", ".", "1">>],
    [type |-> "dict", value |-> <<"1", ".", "1", ".", "1", ".", "1">>],
    [type |-> "bool", value |-> <<"1">>] }

Inputs == { [type |-> "str", value |-> s] : s \in Texts } \cup NonStrings

\* ------------------------------------------------------------------ state
VARIABLES
  ip_address,  \* the argument of the call
  pc,          \* "call" before the call, "done" after it
  outcome      \* "None" before the call, then the outcome of is_valid_ipv4

vars == <<ip_address, pc, outcome>>

Init ==
  /\ ip_address \in Inputs
  /\ pc = "call"
  /\ outcome = "None"

\* One call of is_valid_ipv4(ip_address).
Call ==
  /\ pc = "call"
  /\ outcome' = is_valid_ipv4(ip_address)
  /\ pc' = "done"
  /\ UNCHANGED ip_address

Next == Call

Spec == Init /\ [][Next]_vars

\* ------------------------------------------------- vocabulary of the claims
Done == pc = "done"

IsText == ip_address.type = "str"

\* trim: the text without its leading and trailing whitespace.
Trim(s) ==
  LET keep == { i \in 1..Len(s) : s[i] \notin Whitespace }
  IN IF keep = {} THEN <<>>
     ELSE SubSeq(s, CHOOSE i \in keep : \A j \in keep : i <= j,
                    CHOOSE i \in keep : \A j \in keep : i >= j)

Trimmed == Trim(ip_address.value)

\* The segments of the trimmed text, and those of the text as given.
Segments == split(Trimmed, ".")

RawSegments == split(ip_address.value, ".")

IsDigitString(seg) == seg # <<>> /\ \A i \in 1..Len(seg) : seg[i] \in Digits

NoLeadingZero(seg) == ~(Len(seg) > 1 /\ seg[1] = "0")

\* A '0' followed by one or more digits.
IsZeroPrefixed(seg) == IsDigitString(seg) /\ Len(seg) > 1 /\ seg[1] = "0"

RECURSIVE DecimalValue(_)
DecimalValue(seg) ==
  IF seg = <<>> THEN 0
  ELSE 10 * DecimalValue(SubSeq(seg, 1, Len(seg) - 1)) + DigitValue(seg[Len(seg)])

WellFormedOctet(seg) ==
  /\ IsDigitString(seg)
  /\ NoLeadingZero(seg)
  /\ DecimalValue(seg) \in 0..255

\* The dotted-decimal four-octet grammar, on the trimmed text.
Grammar ==
  /\ Len(Segments) = 4
  /\ \A i \in 1..Len(Segments) : WellFormedOctet(Segments[i])

\* Four segments, each a digit string without a leading zero.
PlainSegments ==
  /\ Len(Segments) = 4
  /\ \A i \in 1..Len(Segments) :
       IsDigitString(Segments[i]) /\ NoLeadingZero(Segments[i])

\* ------------------------------------------------------------------ claims
\* C1: for a text, the call returns True exactly when the trimmed text
\* matches the grammar (4 segments, each non-empty, digits only, no leading
\* zero, value in [0,255]), and False for every other text.
C1_VerdictIffGrammar ==
  (Done /\ IsText) => outcome = (IF Grammar THEN "True" ELSE "False")

\* C2: for a non-text argument the call raises TypeError and returns no
\* boolean.
C2_TypeError ==
  (Done /\ ~IsText) => (outcome = "TypeError" /\ outcome \notin {"True", "False"})

C2_Witness ==
  Done /\ ip_address.type = "list" /\ outcome = "TypeError"

\* C3: for a text the call ends with a boolean; it never raises.
C3_Totality ==
  (Done /\ IsText) => outcome \in {"True", "False"}

\* A text whose first octet makes int() raise ValueError inside the call.
C3_Witness ==
  /\ Done /\ IsText
  /\ Len(RawSegments) = 4
  /\ int(RawSegments[1]).raised = "ValueError"
  /\ ~HasLeadingZero(RawSegments[1]) /\ RawSegments[1] # <<>>
  /\ outcome = "False"

\* C4: a text whose trimmed form still holds a whitespace character is
\* answered False.
C4_InteriorWhitespaceRejected ==
  (Done /\ IsText /\ \E i \in 1..Len(Trimmed) : Trimmed[i] \in Whitespace)
    => outcome = "False"

\* C5: a text with a sign character in some segment is answered False,
\* whatever the digits after the sign.
C5_SignRejected ==
  (Done /\ IsText /\ \E i \in 1..Len(RawSegments) :
                       \E j \in 1..Len(RawSegments[i]) : RawSegments[i][j] \in Signs)
    => outcome = "False"

C7_PaddedAddressRejected ==
  (Done /\ IsText /\ Trimmed # ip_address.value /\ Grammar
     /\ \A i \in 1..Len(ip_address.value) :
          ip_address.value[i] \in Whitespace => ip_address.value[i] = " ")
    => outcome = "False"

C9_LeadingZeroLaw ==
  /\ (Done /\ IsText
        /\ \/ \E i \in 1..Len(Segments) : IsZeroPrefixed(Segments[i])
           \/ \E i \in 1..Len(RawSegments) : IsZeroPrefixed(RawSegments[i]))
       => outcome = "False"
  /\ (Done /\ IsText /\ Grammar /\ \E i \in 1..Len(Segments) : Segments[i] = <<"0">>)
       => outcome = "True"

\* "01" among three well-formed octets: in range, and still rejected.
C9_Witness ==
  /\ Done /\ IsText
  /\ Len(Segments) = 4
  /\ \E i \in 1..4 :
       /\ Segments[i] = <<"0", "1">>
       /\ \A j \in (1..4) \ {i} : WellFormedOctet(Segments[j])
  /\ outcome = "False"

\* C10: a text whose trimmed form does not split into exactly 4 segments is
\* answered False, whatever the segments are.
C10_SegmentCountLaw ==
  (Done /\ IsText /\ Len(Segments) # 4) => outcome = "False"

\* Five well-formed octets.
C10_Witness ==
  /\ Done /\ IsText
  /\ Len(Segments) = 5
  /\ \A i \in 1..5 : WellFormedOctet(Segments[i])
  /\ outcome = "False"

====
